---- MODULE Spec2Model ----
(***************************************************************************)
(* A model of textblob/base.py: the abstract base classes of the taggers,  *)
(* noun phrase extractors, tokenizers, sentiment analyzers and parsers.    *)
(*                                                                         *)
(*   Spec       the life cycle of one BaseSentimentAnalyzer instance       *)
(*              (__init__, train, analyze), one step per source line.      *)
(*   TokSpec    BaseTokenizer.itokenize: the generators it returns and     *)
(*              their consumption, over a whitespace tokenizer.            *)
(*   IfaceSpec  the five abstract base classes: defining a subclass,       *)
(*              instantiating it under ABCMeta and calling its methods.    *)
(***************************************************************************)
EXTENDS Integers, Sequences, FiniteSets, TLC

VARIABLES
    _trained,      \* BaseSentimentAnalyzer._trained (base.py:90, :95)
    pc,            \* the line the analyzer's running call is at, or "idle"
    op,            \* the method the caller invoked: "analyze", "train", "none"
    before,        \* _trained when the running call started
    fault,         \* the training work of the running call failed
    trainsInCall,  \* train() invocations made by the running call
    trainCalls,    \* train() invocations since construction (a test double's counter)
    log,           \* the completed calls, in order, as their caller saw them
    text,          \* the text handed to the tokenizer
    gens,          \* the generators itokenize(text) has returned, in order
    attempts,      \* the instantiations of concrete subclasses tried, in order
    calls          \* the method calls made on the instances, in order

analyzerVars == <<_trained, pc, op, before, fault, trainsInCall, trainCalls, log>>
tokenizerVars == <<text, gens>>
interfaceVars == <<attempts, calls>>
vars == <<analyzerVars, tokenizerVars, interfaceVars>>

\* Bound: the number of calls a caller makes on the instance.
MaxCalls == 4

(***************************************************************************)
(* BaseSentimentAnalyzer                                                   *)
(***************************************************************************)

\* base.py:80-81, :92
DISCRETE == "ds"
CONTINUOUS == "co"
kind == DISCRETE

\* What a caller observes of one completed call.
Outcome(flag, failed, raised, result) ==
    [op |-> op, before |-> before, after |-> flag, fault |-> failed,
     raised |-> raised, trains |-> trainsInCall, result |-> result]

\* The call ends: control is back with the caller.
Finish(flag, failed, raised, result) ==
    /\ log' = Append(log, Outcome(flag, failed, raised, result))
    /\ pc' = "idle"
    /\ op' = "none"

\* base.py:107  `if not self._trained:`
NeedsTraining_Always(flag) == TRUE
NeedsTraining(flag) == ~flag

\* base.py:98  the training step ("# Train me"): it raises exactly when the
\* training work fails; the base placeholder itself never refuses.
TrainWorkRaises_RefusesRetrain(failed, flag) == failed \/ flag
TrainWorkRaises(failed, flag) == failed

\* base.py:99  the value `self._trained = True` stores.
TrainedValue_Toggle(flag) == ~flag
TrainedValue_Unset(flag) == flag
TrainedValue(flag) == TRUE

\* No tokenizer is in use.
TokenizerIdle ==
    /\ text = <<>>
    /\ gens = <<>>

\* No subclass has been instantiated.
InterfacesIdle ==
    /\ attempts = <<>>
    /\ calls = <<>>

\* base.py:94-95  __init__
AnalyzerInit ==
    /\ _trained = FALSE
    /\ pc = "idle"
    /\ op = "none"
    /\ before = FALSE
    /\ fault = FALSE
    /\ trainsInCall = 0
    /\ trainCalls = 0
    /\ log = <<>>

Init ==
    /\ AnalyzerInit
    /\ TokenizerIdle
    /\ InterfacesIdle

\* A caller invokes analyze(text): control enters at base.py:107. The base
\* body never reads text, so the argument is not part of the state.
CallAnalyze ==
    /\ pc = "idle"
    /\ Len(log) < MaxCalls
    /\ pc' = "analyze_107"
    /\ op' = "analyze"
    /\ before' = _trained
    /\ fault' = FALSE
    /\ trainsInCall' = 0
    /\ UNCHANGED <<_trained, trainCalls, log>>

\* A caller invokes train() directly: control enters at base.py:98.
CallTrain ==
    /\ pc = "idle"
    /\ Len(log) < MaxCalls
    /\ pc' = "train_98"
    /\ op' = "train"
    /\ before' = _trained
    /\ fault' = FALSE
    /\ trainsInCall' = 1
    /\ trainCalls' = trainCalls + 1
    /\ UNCHANGED <<_trained, log>>

\* base.py:107-108  the lazy training check of analyze.
AnalyzeCheck ==
    /\ pc = "analyze_107"
    /\ IF NeedsTraining(_trained)
       THEN /\ pc' = "train_98"
            /\ trainsInCall' = trainsInCall + 1
            /\ trainCalls' = trainCalls + 1
       ELSE /\ pc' = "analyze_110"
            /\ UNCHANGED <<trainsInCall, trainCalls>>
    /\ UNCHANGED <<_trained, op, before, fault, log>>

\* The exception of a failed train() leaves train's frame: analyze has no
\* handler around base.py:108, a direct caller receives it at once.
TrainRaise(flag, failed) ==
    IF op = "analyze"
    THEN /\ pc' = "analyze_108_raise"
         /\ UNCHANGED <<op, log>>
    ELSE Finish(flag, failed, TRUE, "raised")

\* A variant of TrainWork that stores the flag before the training work runs.
TrainWork_FlagFirst ==
    /\ pc = "train_98"
    /\ \E failed \in BOOLEAN :
         /\ fault' = failed
         /\ _trained' = TRUE
         /\ IF TrainWorkRaises(failed, _trained)
            THEN TrainRaise(TRUE, failed)
            ELSE /\ pc' = "train_99"
                 /\ UNCHANGED <<op, log>>
    /\ UNCHANGED <<before, trainsInCall, trainCalls>>

\* base.py:97-98  the training work, which an overriding train() performs
\* in place of the placeholder comment and which may fail.
TrainWork ==
    /\ pc = "train_98"
    /\ \E failed \in BOOLEAN :
         /\ fault' = failed
         /\ IF TrainWorkRaises(failed, _trained)
            THEN TrainRaise(_trained, failed)
            ELSE /\ pc' = "train_99"
                 /\ UNCHANGED <<op, log>>
    /\ UNCHANGED <<_trained, before, trainsInCall, trainCalls>>

\* base.py:99  `self._trained = True`, then train() returns.
TrainSetFlag ==
    /\ pc = "train_99"
    /\ _trained' = TrainedValue(_trained)
    /\ IF op = "analyze"
       THEN /\ pc' = "analyze_110"
            /\ UNCHANGED <<op, log>>
       ELSE Finish(TrainedValue(_trained), fault, FALSE, "None")
    /\ UNCHANGED <<before, fault, trainsInCall, trainCalls>>

\* base.py:107-108  no try/except: the exception leaves analyze.
AnalyzeUnwind ==
    /\ pc = "analyze_108_raise"
    /\ Finish(_trained, fault, TRUE, "raised")
    /\ UNCHANGED <<_trained, before, fault, trainsInCall, trainCalls>>

\* base.py:110  `return None`
AnalyzeReturn ==
    /\ pc = "analyze_110"
    /\ Finish(_trained, fault, FALSE, "None")
    /\ UNCHANGED <<_trained, before, fault, trainsInCall, trainCalls>>

Next ==
    \/ CallAnalyze /\ UNCHANGED <<tokenizerVars, interfaceVars>>
    \/ CallTrain /\ UNCHANGED <<tokenizerVars, interfaceVars>>
    \/ AnalyzeCheck /\ UNCHANGED <<tokenizerVars, interfaceVars>>
    \/ TrainWork /\ UNCHANGED <<tokenizerVars, interfaceVars>>
    \/ TrainSetFlag /\ UNCHANGED <<tokenizerVars, interfaceVars>>
    \/ AnalyzeUnwind /\ UNCHANGED <<tokenizerVars, interfaceVars>>
    \/ AnalyzeReturn /\ UNCHANGED <<tokenizerVars, interfaceVars>>

Spec == Init /\ [][Next]_vars

(***************************************************************************)
(* BaseTokenizer                                                           *)
(***************************************************************************)

\* Bounds: the length of a text, the generators made from it, and the
\* requests a consumer makes of a generator after it is exhausted.
MaxLen == 3
MaxGens == 2
MaxExtraNext == 1

Chars == {"a", "b", " "}
Texts == UNION {[1..n -> Chars] : n \in 0..MaxLen}

\* A concrete tokenize(text): the tokens of s from position i on, split on
\* whitespace, cur being the token in progress.
RECURSIVE SplitFrom(_, _, _)
SplitFrom(s, i, cur) ==
    LET flush == IF cur = <<>> THEN <<>> ELSE <<cur>>
    IN  IF i > Len(s) THEN flush
        ELSE IF s[i] = " " THEN flush \o SplitFrom(s, i + 1, <<>>)
        ELSE SplitFrom(s, i + 1, Append(cur, s[i]))

\* base.py:59-65  tokenize, as a tokenizer that splits on whitespace defines it.
tokenize(t) == SplitFrom(t, 1, <<>>)

\* A variant of NewGenerator that hands out the generator already advanced once.
NewGenerator_Primed(t) ==
    LET items == tokenize(t)
        k == IF items = <<>> THEN 0 ELSE 1
    IN  [items |-> items, computed |-> Len(items), pos |-> k,
         yielded |-> SubSeq(items, 1, k), requests |-> 0, stops |-> 0]

\* base.py:74  `(t for t in self.tokenize(text, *args, **kwargs))`: a generator
\* expression evaluates its outermost iterable when it is created, so
\* tokenize runs to completion inside itokenize; the generator holds an
\* iterator over the finished list and has yielded nothing yet.
NewGenerator(t) ==
    LET items == tokenize(t)
    IN  [items |-> items, computed |-> Len(items), pos |-> 0,
         yielded |-> <<>>, requests |-> 0, stops |-> 0]

\* A variant of Advance that walks the list from its end.
Advance_Reversed(g) ==
    IF g.pos < Len(g.items)
    THEN [g EXCEPT !.pos = @ + 1,
                   !.yielded = Append(@, g.items[Len(g.items) - g.pos]),
                   !.requests = @ + 1]
    ELSE [g EXCEPT !.requests = @ + 1, !.stops = @ + 1]

\* A variant of Advance that behaves as the list itself would: exhausted, it
\* starts over from the first token.
Advance_Restartable(g) ==
    IF g.pos < Len(g.items)
    THEN [g EXCEPT !.pos = @ + 1,
                   !.yielded = Append(@, g.items[g.pos + 1]),
                   !.requests = @ + 1]
    ELSE IF g.items = <<>>
    THEN [g EXCEPT !.requests = @ + 1, !.stops = @ + 1]
    ELSE [g EXCEPT !.pos = 1,
                   !.yielded = Append(@, g.items[1]),
                   !.requests = @ + 1]

\* base.py:74  one next() on the generator: the loop `for t in ...` takes the
\* list iterator's next item and yields it, or the generator ends
\* (StopIteration), as it does on every request after that.
Advance(g) ==
    IF g.pos < Len(g.items)
    THEN [g EXCEPT !.pos = @ + 1,
                   !.yielded = Append(@, g.items[g.pos + 1]),
                   !.requests = @ + 1]
    ELSE [g EXCEPT !.requests = @ + 1, !.stops = @ + 1]

\* A tokenizer is handed a text.
TokInit ==
    /\ text \in Texts
    /\ gens = <<>>
    /\ AnalyzerInit
    /\ InterfacesIdle

\* base.py:67-74  itokenize(text) returns a new generator.
Itokenize ==
    /\ Len(gens) < MaxGens
    /\ gens' = Append(gens, NewGenerator(text))
    /\ UNCHANGED text

\* The consumer requests the next token of generator i.
GenNext(i) ==
    /\ gens[i].stops <= MaxExtraNext
    /\ gens' = [gens EXCEPT ![i] = Advance(gens[i])]
    /\ UNCHANGED text

TokNext ==
    \/ Itokenize /\ UNCHANGED <<analyzerVars, interfaceVars>>
    \/ \E i \in 1..Len(gens) : GenNext(i) /\ UNCHANGED <<analyzerVars, interfaceVars>>

TokSpec == TokInit /\ [][TokNext]_vars

\* The tokens a consumer collected by consuming generator g to its end.
Exhausted(g) == g.stops > 0

(***************************************************************************)
(* The abstract base classes under ABCMeta                                 *)
(***************************************************************************)

\* Bounds: the subclasses instantiated and the method calls made on them.
MaxObjects == 2
MaxMethodCalls == 2

\* base.py:21, :38, :53, :84, :116
Bases == {"BaseTagger", "BaseNPExtractor", "BaseTokenizer",
          "BaseSentimentAnalyzer", "BaseParser"}

\* The methods each base class defines.
Methods(base) ==
    CASE base = "BaseTagger" -> {"tag"}
      [] base = "BaseNPExtractor" -> {"extract"}
      [] base = "BaseTokenizer" -> {"tokenize", "itokenize"}
      [] base = "BaseSentimentAnalyzer" -> {"train", "analyze"}
      [] base = "BaseParser" -> {"parse"}

\* The method each class docstring says descendants must implement.
Required(base) ==
    CASE base = "BaseTagger" -> "tag"
      [] base = "BaseNPExtractor" -> "extract"
      [] base = "BaseTokenizer" -> "tokenize"
      [] base = "BaseSentimentAnalyzer" -> "analyze"
      [] base = "BaseParser" -> "parse"

\* A variant of AbstractMethods in which parse lacks its decorator.
AbstractMethods_ParseUndecorated(base) ==
    CASE base = "BaseTagger" -> {"tag"}
      [] base = "BaseNPExtractor" -> {"extract"}
      [] base = "BaseTokenizer" -> {"tokenize"}
      [] base = "BaseSentimentAnalyzer" -> {"analyze"}
      [] base = "BaseParser" -> {}

\* The methods decorated @abstractmethod: base.py:27, :44, :59, :101, :121.
AbstractMethods(base) ==
    CASE base = "BaseTagger" -> {"tag"}
      [] base = "BaseNPExtractor" -> {"extract"}
      [] base = "BaseTokenizer" -> {"tokenize"}
      [] base = "BaseSentimentAnalyzer" -> {"analyze"}
      [] base = "BaseParser" -> {"parse"}

\* metaclass=ABCMeta: the abstract methods a subclass leaves unimplemented
\* (its __abstractmethods__).
Unimplemented(base, defines) == AbstractMethods(base) \ defines

\* metaclass=ABCMeta: instantiating a class with unimplemented abstract
\* methods raises TypeError; otherwise the instance is made.
Construct(base, defines) ==
    [base |-> base, defines |-> defines,
     outcome |-> IF Unimplemented(base, defines) = {}
                 THEN "instance" ELSE "TypeError"]

\* Attribute lookup: the subclass's own definition of a method, or else the
\* body inherited from the base class, which returns without an error.
Resolve(obj, method) ==
    IF method \in obj.defines THEN "subclass" ELSE "inherited"

IfaceInit ==
    /\ InterfacesIdle
    /\ AnalyzerInit
    /\ TokenizerIdle

\* A subclass of `base` defining the methods `defines` is instantiated.
Instantiate(base, defines) ==
    /\ Len(attempts) < MaxObjects
    /\ attempts' = Append(attempts, Construct(base, defines))
    /\ UNCHANGED calls

\* A method of the instance made by attempt i is called.
CallMethod(i, method) ==
    /\ Len(calls) < MaxMethodCalls
    /\ attempts[i].outcome = "instance"
    /\ method \in Methods(attempts[i].base)
    /\ calls' = Append(calls, [obj |-> i, method |-> method,
                               ran |-> Resolve(attempts[i], method)])
    /\ UNCHANGED attempts

IfaceNext ==
    \/ \E base \in Bases : \E defines \in SUBSET Methods(base) :
           Instantiate(base, defines) /\ UNCHANGED <<analyzerVars, tokenizerVars>>
    \/ \E i \in 1..Len(attempts) : \E method \in Methods(attempts[i].base) :
           CallMethod(i, method) /\ UNCHANGED <<analyzerVars, tokenizerVars>>

IfaceSpec == IfaceInit /\ [][IfaceNext]_vars

TypeOK ==
    /\ _trained \in BOOLEAN
    /\ pc \in {"idle", "analyze_107", "analyze_108_raise", "analyze_110",
               "train_98", "train_99"}
    /\ op \in {"none", "analyze", "train"}
    /\ trainCalls \in 0..MaxCalls
    /\ Len(log) <= MaxCalls
    /\ text \in Texts
    /\ Len(gens) <= MaxGens
    /\ Len(attempts) <= MaxObjects
    /\ Len(calls) <= MaxMethodCalls

(***************************************************************************)
(* Properties of the analyzer life cycle (specification Spec)              *)
(***************************************************************************)

Calls == 1..Len(log)

\* The calls made so far are all analyze calls whose training work succeeded.
OnlyGoodAnalyze ==
    /\ \A i \in Calls : log[i].op = "analyze" /\ ~log[i].fault
    /\ op # "train"
    /\ ~fault

\* A train() call ran to completion during call i.
Completed(i) == log[i].trains > 0 /\ ~log[i].raised

\* C1: on a fresh analyzer whose train() succeeds, any run of n >= 1 analyze
\* calls invokes train() exactly once, during the first call and before it
\* returns; the flag is false before that call and true after it, and no
\* later analyze call invokes train() again.
C1_TrainOnceOnFirstAnalyze ==
    OnlyGoodAnalyze =>
        /\ Len(log) >= 1 =>
             /\ ~log[1].before /\ log[1].after /\ log[1].trains = 1
             /\ \A i \in 2..Len(log) : log[i].trains = 0
             /\ trainCalls = 1
             /\ _trained
        /\ (Len(log) = 0 /\ pc = "analyze_110") => (trainCalls = 1 /\ _trained)
        /\ (Len(log) = 0 /\ pc = "idle") => (trainCalls = 0 /\ ~_trained)

C1_Witness ==
    /\ OnlyGoodAnalyze
    /\ Len(log) >= 3
    /\ pc = "idle"

\* C2: when train() fails inside analyze on an untrained analyzer, the flag
\* is still false after the call, the caller of analyze receives the failure
\* and no result, and the flag is never true while that training is unfinished.
C2_TrainFailurePropagates ==
    /\ \A i \in Calls :
         (log[i].op = "analyze" /\ log[i].fault) =>
             /\ ~log[i].before
             /\ ~log[i].after
             /\ log[i].raised
             /\ log[i].result = "raised"
    /\ (op = "analyze" /\ pc \in {"train_98", "train_99", "analyze_108_raise"})
           => ~_trained

C2_Witness ==
    \E i \in Calls : log[i].op = "analyze" /\ log[i].fault /\ log[i].raised

\* C5: once the trained flag is true it stays true under every further
\* train() and analyze() step.
C5_TrainedIsPermanent == [][_trained => _trained']_vars

C5_Witness ==
    \E i \in Calls : \E j \in Calls :
        /\ i < j
        /\ log[i].op = "train" /\ log[i].before /\ log[i].after
        /\ log[j].op = "analyze" /\ log[j].before /\ log[j].after

\* C6: two explicit train() calls in a row, from either starting state, leave
\* the analyzer trained after the first and after the second, and neither
\* call raises, whenever the training work itself does not fail.
C6_TrainIdempotent ==
    \A i \in Calls :
        (/\ i + 1 \in Calls
         /\ log[i].op = "train" /\ ~log[i].fault
         /\ log[i + 1].op = "train" /\ ~log[i + 1].fault) =>
            /\ log[i].after /\ ~log[i].raised /\ log[i].result = "None"
            /\ log[i + 1].after /\ ~log[i + 1].raised /\ log[i + 1].result = "None"

C6_Witness ==
    /\ Len(log) >= 3
    /\ \A i \in 1..3 : log[i].op = "train" /\ ~log[i].fault
    /\ ~log[1].before
    /\ log[2].before

\* C8: after a direct train() has completed on a fresh analyzer, the analyzer
\* is trained before any analysis and no later analyze call invokes train().
C8_EagerTraining ==
    (Len(log) >= 1 /\ log[1].op = "train" /\ ~log[1].raised) =>
        /\ log[1].after
        /\ \A j \in 2..Len(log) :
             log[j].op = "analyze" =>
                 log[j].before /\ log[j].trains = 0 /\ ~log[j].raised
        /\ op = "analyze" => (before /\ trainsInCall = 0)

C8_Witness ==
    /\ Len(log) >= 3
    /\ log[1].op = "train" /\ ~log[1].raised
    /\ log[2].op = "analyze"
    /\ log[3].op = "analyze"

\* C10: a failed training attempt is retried: an analyze call invokes train()
\* exactly when no earlier train() call has completed, so the train()
\* invocations made by analyze calls number the analyze calls that started
\* with the flag false.
C10_FailedTrainingIsRetried ==
    /\ \A j \in Calls :
         log[j].op = "analyze" =>
             /\ log[j].trains = (IF log[j].before THEN 0 ELSE 1)
             /\ log[j].before <=> (\E i \in 1..(j - 1) : Completed(i))
    /\ pc = "idle" =>
         trainCalls = Cardinality({j \in Calls : log[j].op = "train"})
                    + Cardinality({j \in Calls : log[j].op = "analyze" /\ ~log[j].before})

C10_Witness ==
    /\ Len(log) >= 4
    /\ \A i \in 1..4 : log[i].op = "analyze"
    /\ log[1].raised /\ log[2].raised
    /\ log[3].trains = 1 /\ ~log[3].raised
    /\ log[4].trains = 0

(***************************************************************************)
(* Properties of itokenize (specification TokSpec)                         *)
(***************************************************************************)

Gens == {gens[i] : i \in 1..Len(gens)}

Min(a, b) == IF a <= b THEN a ELSE b

\* C3: for every text, the empty one included, the tokens collected by
\* consuming itokenize(text) to its end are those of tokenize(text), in the
\* same order; for the empty text that is the empty sequence.
C3_ItokenizeEqualsTokenize ==
    \A g \in Gens :
        Exhausted(g) =>
            /\ g.yielded = tokenize(text)
            /\ text = <<>> => g.yielded = <<>>

C3_Witness ==
    \E g \in Gens :
        /\ Exhausted(g)
        /\ Len(g.yielded) = 2
        /\ g.yielded[1] # g.yielded[2]

C9_SinglePassIndependent ==
    \A i \in 1..Len(gens) :
        LET all == tokenize(text)
        IN  /\ gens[i].yielded = SubSeq(all, 1, Min(gens[i].requests, Len(all)))
            /\ gens[i].pos = Len(gens[i].yielded)

C9_Witness ==
    /\ Len(gens) = 2
    /\ Len(tokenize(text)) = 2
    /\ gens[1].stops = 2
    /\ gens[2].requests = 1
    /\ gens[2].yielded = <<tokenize(text)[1]>>

(***************************************************************************)
(* Properties of the abstract base classes (specification IfaceSpec)       *)
(***************************************************************************)

\* C7: for each of the five base classes, a subclass that does not define
\* the required method fails when it is instantiated, and no call of a
\* required method ever returns from the inherited placeholder body.
C7_MissingMethodFails ==
    /\ \A i \in 1..Len(attempts) :
         Required(attempts[i].base) \notin attempts[i].defines
             => attempts[i].outcome = "TypeError"
    /\ \A k \in 1..Len(calls) :
         LET obj == attempts[calls[k].obj]
         IN  /\ obj.outcome = "instance"
             /\ calls[k].method = Required(obj.base) => calls[k].ran = "subclass"

C7_Witness ==
    /\ Len(attempts) = 2
    /\ attempts[1].base = "BaseParser" /\ attempts[1].outcome = "TypeError"
    /\ attempts[2].base = "BaseSentimentAnalyzer"
    /\ attempts[2].outcome = "instance"
    /\ Len(calls) = 2
    /\ calls[1].method = "train" /\ calls[1].ran = "inherited"
    /\ calls[2].method = "analyze" /\ calls[2].ran = "subclass"

====
